---- MODULE Spec2Model ----
(***************************************************************************)
(* A model of src/storage.py (renyuneyun/inforec): the identity-keyed      *)
(* Collection of time markers, its dangling-reference index, and the       *)
(* OrderedMarkers graph builder behind conflicts() / has_no_conflict().    *)
(*                                                                         *)
(* Exceptions keep their Python names.  The documentation calls them       *)
(*   IllegalStateError  - DuplicateIdentityError                           *)
(*   KeyError           - NotFoundError                                    *)
(*   AssertionError     - VariantMismatchError (update_item)               *)
(*   RuntimeError       - VariantMismatchError (get_event)                 *)
(***************************************************************************)
EXTENDS Integers, Sequences, FiniteSets, TLC

\* ------------------------------------------------------------------ bounds
MaxId == 2        \* identities handed to the methods are 1..MaxId (UUIDs)
MaxValue == 2     \* time values of AbsoluteDateTime / Date are 1..MaxValue
MaxRefs == 1      \* references in one Event handed to add_item / update_item
MaxBatch == 2     \* markers in one add_item(*item) call
MaxSeed == 3      \* markers in Collection(initial_rel_markers), ids 1..MaxSeed
MaxSeedRefs == 3  \* references in all the Events of the seed together

Ids == 1..MaxId
SeedIds == 1..MaxSeed
Values == 1..MaxValue

\* ------------------------------------------------------------ marker model
\* model.py is not among the sources: a marker is its id, its class and
\* either a comparable value or an explicit timespec (befores, sames, afters).
AbsoluteDateTime(i, v) ==
  [id |-> i, variant |-> "AbsoluteDateTime", value |-> v,
   befores |-> {}, sames |-> {}, afters |-> {}]

Date(i, v) ==
  [id |-> i, variant |-> "Date", value |-> v,
   befores |-> {}, sames |-> {}, afters |-> {}]

Event(i, b, s, a) ==
  [id |-> i, variant |-> "Event", value |-> 0,
   befores |-> b, sames |-> s, afters |-> a]

\* an Event whose timespec is a RelTimeSpecImplicit: a comparable value and
\* no befores, sames or afters
EventImplicit(i, v) ==
  [id |-> i, variant |-> "Event", value |-> v,
   befores |-> {}, sames |-> {}, afters |-> {}]

\* the number of references of a marker
NumRefs(t) ==
  Cardinality(t.befores) + Cardinality(t.sames) + Cardinality(t.afters)

\* the explicit timespecs over identities ids with at most n references
TimeSpecs(ids, n) ==
  {t \in [befores : SUBSET ids, sames : SUBSET ids, afters : SUBSET ids] :
     NumRefs(t) <= n}

\* the markers of identity i whose Events refer to identities in ids
MarkersOf(i, ids, n) ==
  {AbsoluteDateTime(i, v) : v \in Values}
    \cup {Date(i, v) : v \in Values}
    \cup {Event(i, t.befores, t.sames, t.afters) : t \in TimeSpecs(ids, n)}

\* the markers handed to add_item and update_item
Markers == UNION {MarkersOf(i, Ids, MaxRefs) : i \in Ids}

\* the markers of identity i handed to Collection(initial_rel_markers)
SeedMarkers(i) == MarkersOf(i, SeedIds, MaxSeedRefs)

\* those with exactly n references
SeedMarkersWith(i, n) == {m \in SeedMarkers(i) : NumRefs(m) = n}

\* the value-comparable markers of identity i
ImplicitMarkers(i) ==
  {AbsoluteDateTime(i, v) : v \in Values}
    \cup {Date(i, v) : v \in Values}
    \cup {EventImplicit(i, v) : v \in Values}

\* isinstance(x, cls) for the three marker classes, none a subclass of another
isinstance(x, cls) == x.variant = cls

\* ------------------------------------------------------------------- state
VARIABLES
  collection,     \* Collection.collection: identity -> marker
  keyOrder,       \* insertion order of the keys of Collection.collection
  dangling_refs,  \* Collection._dangling_refs: identity -> set of referrers
  called,         \* the method that ran last
  raised,         \* the exception it raised, or "None"
  ret,            \* the value it returned
  db              \* the file DATABASE_FILE of the directory of the InfoRecDB

vars == <<collection, keyOrder, dangling_refs, called, raised, ret, db>>

\* the value returned, one field per return type
NoRet == [bool |-> FALSE, item |-> {}, keys |-> <<>>, cycles |-> {}]

Put(f, k, v) == [x \in DOMAIN f \cup {k} |-> IF x = k THEN v ELSE f[x]]

Del(f, k) == [x \in DOMAIN f \ {k} |-> f[x]]

EmptyMap == [x \in {} |-> 0]

\* --------------------------------------------------------------- Collection
\* itertools.chain(timespec.befores or [], timespec.sames or [], timespec.afters or [])
chain(timespec) == timespec.befores \cup timespec.sames \cup timespec.afters

\* Collection._do_dangling_ref
do_dangling_ref(coll, refs, timespec, item_id) ==
  LET tids == {tid \in chain(timespec) : tid \notin DOMAIN coll}
  IN  [x \in DOMAIN refs \cup tids |->
         (IF x \in DOMAIN refs THEN refs[x] ELSE {})
           \cup (IF x \in tids THEN {item_id} ELSE {})]

\* the first loop of add_item, overwriting a stored marker instead of raising
RECURSIVE add_item_insert_overwrite(_, _, _, _)
add_item_insert_overwrite(coll, order, item, k) ==
  IF k > Len(item)
    THEN [collection |-> coll, keyOrder |-> order, raised |-> "None"]
    ELSE add_item_insert_overwrite(
           Put(coll, item[k].id, item[k]),
           IF item[k].id \in DOMAIN coll THEN order ELSE Append(order, item[k].id),
           item, k + 1)

\* the first loop of add_item, checking every identity before it stores any
add_item_insert_atomic(coll, order, item, k) ==
  IF \/ \E j \in DOMAIN item : item[j].id \in DOMAIN coll
     \/ \E i, j \in DOMAIN item : i # j /\ item[i].id = item[j].id
    THEN [collection |-> coll, keyOrder |-> order, raised |-> "IllegalStateError"]
    ELSE add_item_insert_overwrite(coll, order, item, k)

\* Collection.add_item, first loop from its k-th item on
RECURSIVE add_item_insert(_, _, _, _)
add_item_insert(coll, order, item, k) ==
  IF k > Len(item)
    THEN [collection |-> coll, keyOrder |-> order, raised |-> "None"]
    ELSE LET iid == item[k].id
         IN  IF iid \in DOMAIN coll
               THEN [collection |-> coll, keyOrder |-> order,
                     raised |-> "IllegalStateError"]
               ELSE add_item_insert(Put(coll, iid, item[k]), Append(order, iid),
                                    item, k + 1)

\* Collection.add_item, second loop from its k-th item on
RECURSIVE add_item_refs(_, _, _, _)
add_item_refs(coll, refs, item, k) ==
  IF k > Len(item)
    THEN refs
    ELSE LET iid == item[k].id
         IN  IF isinstance(item[k], "Event")
               THEN add_item_refs(coll,
                                  do_dangling_ref(coll,
                                                  IF iid \in DOMAIN refs
                                                    THEN Del(refs, iid)
                                                    ELSE refs,
                                                  item[k], iid),
                                  item, k + 1)
               ELSE add_item_refs(coll, refs, item, k + 1)

\* add_item running its second loop although the first one raised
add_item_refs_always(coll, order, refs, item) ==
  LET ins == add_item_insert(coll, order, item, 1)
  IN  [collection |-> ins.collection,
       keyOrder |-> ins.keyOrder,
       dangling_refs |-> add_item_refs(ins.collection, refs, item, 1),
       raised |-> ins.raised]

\* Collection.add_item
add_item(coll, order, refs, item) ==
  LET ins == add_item_insert(coll, order, item, 1)
  IN  [collection |-> ins.collection,
       keyOrder |-> ins.keyOrder,
       dangling_refs |-> IF ins.raised = "None"
                           THEN add_item_refs(ins.collection, refs, item, 1)
                           ELSE refs,
       raised |-> ins.raised]

\* Collection.get_item
get_item(coll, id) ==
  IF id \in DOMAIN coll
    THEN [raised |-> "None", item |-> {coll[id]}]
    ELSE [raised |-> "KeyError", item |-> {}]

\* Collection.get_event
get_event(coll, id) ==
  LET r == get_item(coll, id)
  IN  IF r.raised # "None" THEN r
      ELSE IF \E item \in r.item : ~isinstance(item, "Event")
        THEN [raised |-> "RuntimeError", item |-> {}]
      ELSE r

\* update_item without its assertion
update_item_unchecked(coll, order, refs, item_id, new_item) ==
  LET got == get_item(coll, item_id)
  IN  IF got.raised # "None"
        THEN [collection |-> coll, keyOrder |-> order, dangling_refs |-> refs,
              raised |-> got.raised]
      ELSE LET coll2 == Put(coll, coll[item_id].id, new_item)
           IN  [collection |-> coll2,
                keyOrder |-> IF coll[item_id].id \in DOMAIN coll
                               THEN order ELSE Append(order, coll[item_id].id),
                dangling_refs |-> [x \in DOMAIN refs |-> refs[x] \ {item_id}],
                raised |-> "None"]

\* update_item that stores new_item under an absent item_id
update_item_upsert(coll, order, refs, item_id, new_item) ==
  IF item_id \in DOMAIN coll
    THEN update_item_unchecked(coll, order, refs, item_id, new_item)
    ELSE [collection |-> Put(coll, item_id, new_item),
          keyOrder |-> Append(order, item_id),
          dangling_refs |-> refs,
          raised |-> "None"]

\* Collection.update_item
update_item(coll, order, refs, item_id, new_item) ==
  LET got == get_item(coll, item_id)
  IN  IF got.raised # "None"
        THEN [collection |-> coll, keyOrder |-> order, dangling_refs |-> refs,
              raised |-> got.raised]
      ELSE LET old_item == CHOOSE item \in got.item : TRUE
               coll2 == Put(coll, old_item.id, new_item)
               order2 == IF old_item.id \in DOMAIN coll
                           THEN order
                           ELSE Append(order, old_item.id)
               refs2 == [x \in DOMAIN refs |-> refs[x] \ {item_id}]
           IN  IF ~isinstance(new_item, old_item.variant)
                 THEN [collection |-> coll, keyOrder |-> order,
                       dangling_refs |-> refs, raised |-> "AssertionError"]
                 ELSE [collection |-> coll2,
                       keyOrder |-> order2,
                       dangling_refs |->
                         IF isinstance(new_item, "Event")
                           THEN do_dangling_ref(coll2, refs2, new_item, item_id)
                           ELSE refs2,
                       raised |-> "None"]

\* Collection.is_self_contained
is_self_contained(refs) == DOMAIN refs = {}

\* Collection.list: the keys, in insertion order
list(order) == order

\* ----------------------------------------------------------- OrderedMarkers
\* collection.collection.values(): the stored markers in insertion order
values(coll, order) == [k \in 1..Len(order) |-> coll[order[k]]]

\* the elements of a set in iteration order (ascending identity)
RECURSIVE iter(_)
iter(S) ==
  IF S = {} THEN <<>>
  ELSE LET x == CHOOSE y \in S : \A z \in S : y <= z
       IN  <<x>> \o iter(S \ {x})

\* current_root(node) over id_merging; fuel is the recursion depth left
RECURSIVE current_root(_, _, _)
current_root(id_merging, node, fuel) ==
  IF node \notin DOMAIN id_merging THEN [raised |-> "KeyError", root |-> 0]
  ELSE IF id_merging[node] = node THEN [raised |-> "None", root |-> node]
  ELSE IF fuel = 0 THEN [raised |-> "RecursionError", root |-> 0]
  ELSE current_root(id_merging, id_merging[node], fuel - 1)

\* for marker in coll: id_merging[marker.id] = marker.id
id_merging_init(coll) ==
  [x \in {coll[k].id : k \in DOMAIN coll} |-> x]

\* for same in sames: if id_merging[same] != same: merged_id = ...; break
RECURSIVE find_merged_id(_, _, _)
find_merged_id(id_merging, sames, k) ==
  IF k > Len(sames) THEN [raised |-> "None", merged_id |-> 0]
  ELSE IF sames[k] \notin DOMAIN id_merging
    THEN [raised |-> "KeyError", merged_id |-> 0]
  ELSE IF id_merging[sames[k]] # sames[k]
    THEN [raised |-> "None", merged_id |-> id_merging[sames[k]]]
  ELSE find_merged_id(id_merging, sames, k + 1)

\* for same in sames: root = current_root(same); id_merging[same] = merged_id
RECURSIVE merge_sames(_, _, _, _)
merge_sames(id_merging, sames, merged_id, k) ==
  IF k > Len(sames) THEN [raised |-> "None", id_merging |-> id_merging]
  ELSE LET root == current_root(id_merging, sames[k], Cardinality(DOMAIN id_merging))
       IN  IF root.raised # "None"
             THEN [raised |-> root.raised, id_merging |-> id_merging]
             ELSE merge_sames(Put(id_merging, sames[k], merged_id), sames,
                              merged_id, k + 1)

\* the second loop of the union-find, from the k-th marker on
RECURSIVE merge_markers(_, _, _)
merge_markers(coll, id_merging, k) ==
  IF k > Len(coll) THEN [raised |-> "None", id_merging |-> id_merging]
  ELSE IF ~isinstance(coll[k], "Event") \/ coll[k].sames = {}
    THEN merge_markers(coll, id_merging, k + 1)
  ELSE LET sames == iter(coll[k].sames)
           found == find_merged_id(id_merging, sames, 1)
       IN  IF found.raised # "None"
             THEN [raised |-> found.raised, id_merging |-> id_merging]
           ELSE IF found.merged_id = 0
             THEN merge_markers(coll, id_merging, k + 1)
           ELSE LET m == merge_sames(id_merging, sames, found.merged_id, 1)
                IN  IF m.raised # "None" THEN m
                    ELSE merge_markers(coll,
                                       Put(m.id_merging, coll[k].id, found.merged_id),
                                       k + 1)

\* for marker in coll: id_merged[marker.id] = current_root(marker.id)
id_merged_of(coll, id_merging) ==
  LET ids == {coll[k].id : k \in DOMAIN coll}
      root(x) == current_root(id_merging, x, Cardinality(DOMAIN id_merging))
  IN  IF \E x \in ids : root(x).raised # "None"
        THEN [raised |-> "RecursionError", id_merged |-> EmptyMap]
        ELSE [raised |-> "None", id_merged |-> [x \in ids |-> root(x).root]]

\* id_merged as OrderedMarkers.__init__ builds it, or the exception raised
merge(coll) ==
  LET merging == merge_markers(coll, id_merging_init(coll), 1)
  IN  IF merging.raised # "None"
        THEN [raised |-> merging.raised, id_merged |-> EmptyMap]
        ELSE id_merged_of(coll, merging.id_merging)

\* a node of the graph: a UUID (implicit edges) or the str() of one (explicit)
uuid(x) == [t |-> "UUID", id |-> x]

str(x) == [t |-> "str", id |-> x]

\* isinstance(marker, RelTimeSpecImplicit): the value-comparable classes
is_implicit(marker) ==
  isinstance(marker, "AbsoluteDateTime") \/ isinstance(marker, "Date")

\* RelTimeSpecImplicit.compare: by value
compare(marker, m2) ==
  IF marker.value < m2.value THEN "BEFORE"
  ELSE IF marker.value > m2.value THEN "AFTER"
  ELSE "SAME"

\* the edges added by the loop over implicits
implicit_edges(coll) ==
  LET implicits == {k \in DOMAIN coll : is_implicit(coll[k])}
  IN  {<<uuid(coll[k].id), uuid(coll[j].id)>> :
         <<k, j>> \in {p \in implicits \X implicits :
                         /\ p[1] # p[2]
                         /\ compare(coll[p[1]], coll[p[2]]) = "BEFORE"}}
      \cup
      {<<uuid(coll[j].id), uuid(coll[k].id)>> :
         <<k, j>> \in {p \in implicits \X implicits :
                         /\ p[1] # p[2]
                         /\ compare(coll[p[1]], coll[p[2]]) = "AFTER"}}

\* the loop over the Events without its befores part
explicit_edges_afters_only(coll, id_merged) ==
  LET events == {k \in DOMAIN coll : isinstance(coll[k], "Event")}
  IN  IF \E k \in events : \E x \in coll[k].afters : x \notin DOMAIN id_merged
        THEN [raised |-> "KeyError", edges |-> {}]
        ELSE [raised |-> "None",
              edges |->
                {<<[t |-> "str", id |-> id_merged[p[2]]],
                   [t |-> "str", id |-> id_merged[coll[p[1]].id]]>> :
                   p \in {q \in events \X DOMAIN id_merged : q[2] \in coll[q[1]].afters}}]

\* the edges added by the loop over the Events; id_merged[x] of an x that is
\* no stored marker's id raises KeyError
explicit_edges(coll, id_merged) ==
  LET events == {k \in DOMAIN coll : isinstance(coll[k], "Event")}
  IN  IF \E k \in events :
           \E x \in coll[k].afters \cup coll[k].befores : x \notin DOMAIN id_merged
        THEN [raised |-> "KeyError", edges |-> {}]
        ELSE [raised |-> "None",
              edges |->
                {<<str(id_merged[p[2]]), str(id_merged[coll[p[1]].id])>> :
                   p \in {q \in events \X DOMAIN id_merged : q[2] \in coll[q[1]].afters}}
                \cup
                {<<str(id_merged[coll[p[1]].id]), str(id_merged[p[2]])>> :
                   p \in {q \in events \X DOMAIN id_merged : q[2] \in coll[q[1]].befores}}]

\* OrderedMarkers.__init__: the edges of self.g, or the exception raised
OrderedMarkers(coll) ==
  LET merging == merge_markers(coll, id_merging_init(coll), 1)
      merged == id_merged_of(coll, merging.id_merging)
      explicit == explicit_edges(coll, merged.id_merged)
  IN  IF merging.raised # "None" THEN [raised |-> merging.raised, g |-> {}]
      ELSE IF merged.raised # "None" THEN [raised |-> merged.raised, g |-> {}]
      ELSE IF explicit.raised # "None" THEN [raised |-> explicit.raised, g |-> {}]
      ELSE [raised |-> "None", g |-> implicit_edges(coll) \cup explicit.edges]

\* nodes of a graph given by its edges
nodes(g) == {e[1] : e \in g} \cup {e[2] : e \in g}

\* a total order on nodes, to name each cycle by its least node
rank(n) == 2 * n.id + (IF n.t = "str" THEN 1 ELSE 0)

InPath(path, n) == \E k \in DOMAIN path : path[k] = n

\* the simple cycles that extend path and close at path[1], its least node
RECURSIVE cycles_through(_, _)
cycles_through(g, path) ==
  LET last == path[Len(path)]
  IN  (IF <<last, path[1]>> \in g THEN {path} ELSE {})
      \cup UNION {cycles_through(g, Append(path, n)) :
                    n \in {x \in nodes(g) : /\ <<last, x>> \in g
                                            /\ rank(x) > rank(path[1])
                                            /\ ~InPath(path, x)}}

\* OrderedMarkers.cycles: nx.simple_cycles(self.g), each cycle once
cycles(g) == UNION {cycles_through(g, <<n>>) : n \in nodes(g)}

\* Collection.conflicts
conflicts(coll, order) ==
  LET ordered_events == OrderedMarkers(values(coll, order))
  IN  IF ordered_events.raised # "None"
        THEN [raised |-> ordered_events.raised, cycles |-> {}]
        ELSE [raised |-> "None", cycles |-> cycles(ordered_events.g)]

\* has_no_conflict without its "not"
has_no_conflict_inverted(coll, order) ==
  LET c == conflicts(coll, order)
  IN  IF c.raised = "NetworkXUnfeasible" THEN [raised |-> "None", bool |-> FALSE]
      ELSE IF c.raised # "None" THEN [raised |-> c.raised, bool |-> FALSE]
      ELSE [raised |-> "None", bool |-> c.cycles # {}]

\* Collection.has_no_conflict
has_no_conflict(coll, order) ==
  LET c == conflicts(coll, order)
  IN  IF c.raised = "NetworkXUnfeasible" THEN [raised |-> "None", bool |-> FALSE]
      ELSE IF c.raised # "None" THEN [raised |-> c.raised, bool |-> FALSE]
      ELSE [raised |-> "None", bool |-> c.cycles = {}]

\* ----------------------------------------------------------------- InfoRecDB
T_EVENT == "event"

T_ABSOLUTEDATETIME == "absolute_date_time"

T_DATE == "date"

\* the functions of sede, named by the class they are written for
M_T_DES ==
  [t \in {T_ABSOLUTEDATETIME, T_DATE, T_EVENT} |->
     IF t = T_ABSOLUTEDATETIME THEN "AbsoluteDateTime"
     ELSE IF t = T_DATE THEN "Date"
     ELSE "Event"]

M_T_SER ==
  [t \in {"AbsoluteDateTime", "Date", "Event"} |->
     IF t = "AbsoluteDateTime" THEN <<"Event", T_ABSOLUTEDATETIME>>
     ELSE IF t = "Date" THEN <<"Date", T_DATE>>
     ELSE <<"Event", T_EVENT>>]

\* what an encoder of sede does with a marker of another class than its own:
\* it raises, or it returns a payload of its own shape with the marker's id
ForeignOutcomes == {"AttributeError", "payload"}

\* the encoder sede writes for class cls, applied to marker: the payload
\* carries the id and what markers of cls have besides
serialise(cls, marker, foreign) ==
  IF ~isinstance(marker, cls) /\ foreign = "AttributeError"
    THEN [raised |-> "AttributeError",
          data |-> [shape |-> cls, id |-> 0, value |-> 0,
                    befores |-> {}, sames |-> {}, afters |-> {}]]
    ELSE [raised |-> "None",
          data |-> [shape |-> cls,
                    id |-> marker.id,
                    value |-> IF isinstance(marker, cls) /\ cls # "Event"
                                THEN marker.value ELSE 0,
                    befores |-> IF isinstance(marker, cls) /\ cls = "Event"
                                  THEN marker.befores ELSE {},
                    sames |-> IF isinstance(marker, cls) /\ cls = "Event"
                                THEN marker.sames ELSE {},
                    afters |-> IF isinstance(marker, cls) /\ cls = "Event"
                                 THEN marker.afters ELSE {}]]

\* the decoder sede writes for class cls, applied to a payload: a payload of
\* another shape lacks the fields it reads
deserialise(cls, data) ==
  IF data.shape # cls THEN [raised |-> "KeyError", marker |-> {}]
  ELSE IF cls = "AbsoluteDateTime"
    THEN [raised |-> "None", marker |-> {AbsoluteDateTime(data.id, data.value)}]
  ELSE IF cls = "Date"
    THEN [raised |-> "None", marker |-> {Date(data.id, data.value)}]
  ELSE [raised |-> "None",
        marker |-> {Event(data.id, data.befores, data.sames, data.afters)}]

\* no file
NoDb == [exists |-> FALSE, coll |-> <<>>]

\* InfoRecDB.write, the loop from the k-th marker on: the list coll
RECURSIVE write_entries(_, _, _)
write_entries(markers, foreign, k) ==
  IF k > Len(markers) THEN [raised |-> "None", coll |-> <<>>]
  ELSE LET marker == markers[k]
           t == marker.variant
       IN  IF t \notin DOMAIN M_T_SER
             THEN [raised |-> "AssertionError", coll |-> <<>>]
           ELSE LET data == serialise(M_T_SER[t][1], marker, foreign)
                    rest == write_entries(markers, foreign, k + 1)
                IN  IF data.raised # "None"
                      THEN [raised |-> data.raised, coll |-> <<>>]
                    ELSE IF rest.raised # "None" THEN rest
                    ELSE [raised |-> "None",
                          coll |-> <<[type |-> M_T_SER[t][2], data |-> data.data]>>
                                     \o rest.coll]

\* InfoRecDB.write: the file afterwards, untouched when the loop raised
write(file, coll, order, foreign) ==
  LET r == write_entries(values(coll, order), foreign, 1)
  IN  IF r.raised # "None" THEN [raised |-> r.raised, db |-> file]
      ELSE [raised |-> "None", db |-> [exists |-> TRUE, coll |-> r.coll]]

\* InfoRecDB.read_db, the loop from the k-th entry on: the list coll
RECURSIVE read_entries(_, _)
read_entries(entries, k) ==
  IF k > Len(entries) THEN [raised |-> "None", coll |-> <<>>]
  ELSE LET t == entries[k].type
       IN  IF t \notin DOMAIN M_T_DES
             THEN [raised |-> "AssertionError", coll |-> <<>>]
           ELSE LET d == deserialise(M_T_DES[t], entries[k].data)
                    rest == read_entries(entries, k + 1)
                IN  IF d.raised # "None"
                      THEN [raised |-> d.raised, coll |-> <<>>]
                    ELSE IF rest.raised # "None" THEN rest
                    ELSE [raised |-> "None",
                          coll |-> <<CHOOSE marker \in d.marker : TRUE>> \o rest.coll]

\* InfoRecDB.read_db: Collection(coll), or the exception raised
read_db(file) ==
  IF ~file.exists
    THEN [collection |-> EmptyMap, keyOrder |-> <<>>, dangling_refs |-> EmptyMap,
          raised |-> "FileNotFoundError"]
  ELSE LET r == read_entries(file.coll, 1)
       IN  IF r.raised # "None"
             THEN [collection |-> EmptyMap, keyOrder |-> <<>>,
                   dangling_refs |-> EmptyMap, raised |-> r.raised]
             ELSE add_item(EmptyMap, <<>>, EmptyMap, r.coll)

\* ---------------------------------------------------------------- actions
\* Collection.__init__: the state after Collection(seed) returned
InitWith(seed) ==
  LET r == add_item(EmptyMap, <<>>, EmptyMap, seed)
  IN  /\ r.raised = "None"
      /\ collection = r.collection
      /\ keyOrder = r.keyOrder
      /\ dangling_refs = r.dangling_refs
      /\ called = "__init__"
      /\ db = NoDb
      /\ raised = "None"
      /\ ret = NoRet

\* Collection()
Init == InitWith(<<>>)

\* the seeds with the identities ids, one marker of each, in that order,
\* with at most n references in all
RECURSIVE Seeds(_, _)
Seeds(ids, n) ==
  IF ids = <<>> THEN {<<>>}
  ELSE UNION {{<<m>> \o rest : m \in SeedMarkersWith(Head(ids), k),
                               rest \in Seeds(Tail(ids), n - k)} : k \in 0..n}

\* Collection(seed)
InitSeeded ==
  \E S \in SUBSET SeedIds : \E seed \in Seeds(iter(S), MaxSeedRefs) : InitWith(seed)

AddItem(item) ==
  LET r == add_item(collection, keyOrder, dangling_refs, item)
  IN  /\ collection' = r.collection
      /\ keyOrder' = r.keyOrder
      /\ dangling_refs' = r.dangling_refs
      /\ called' = "add_item"
      /\ raised' = r.raised
      /\ ret' = NoRet
      /\ UNCHANGED db

UpdateItem(item_id, new_item) ==
  LET r == update_item(collection, keyOrder, dangling_refs, item_id, new_item)
  IN  /\ collection' = r.collection
      /\ keyOrder' = r.keyOrder
      /\ dangling_refs' = r.dangling_refs
      /\ called' = "update_item"
      /\ raised' = r.raised
      /\ ret' = NoRet
      /\ UNCHANGED db

IsSelfContained ==
  /\ called' = "is_self_contained"
  /\ raised' = "None"
  /\ ret' = [NoRet EXCEPT !.bool = is_self_contained(dangling_refs)]
  /\ UNCHANGED <<collection, keyOrder, dangling_refs, db>>

GetItem(id) ==
  LET r == get_item(collection, id)
  IN  /\ called' = "get_item"
      /\ raised' = r.raised
      /\ ret' = [NoRet EXCEPT !.item = r.item]
      /\ UNCHANGED <<collection, keyOrder, dangling_refs, db>>

GetEvent(id) ==
  LET r == get_event(collection, id)
  IN  /\ called' = "get_event"
      /\ raised' = r.raised
      /\ ret' = [NoRet EXCEPT !.item = r.item]
      /\ UNCHANGED <<collection, keyOrder, dangling_refs, db>>

List ==
  /\ called' = "list"
  /\ raised' = "None"
  /\ ret' = [NoRet EXCEPT !.keys = list(keyOrder)]
  /\ UNCHANGED <<collection, keyOrder, dangling_refs, db>>

\* conflicts() that drops the dangling-reference index it walked
ConflictsClearing ==
  LET r == conflicts(collection, keyOrder)
  IN  /\ called' = "conflicts"
      /\ raised' = r.raised
      /\ ret' = [NoRet EXCEPT !.cycles = r.cycles]
      /\ dangling_refs' = EmptyMap
      /\ UNCHANGED <<collection, keyOrder, db>>

Conflicts ==
  LET r == conflicts(collection, keyOrder)
  IN  /\ called' = "conflicts"
      /\ raised' = r.raised
      /\ ret' = [NoRet EXCEPT !.cycles = r.cycles]
      /\ UNCHANGED <<collection, keyOrder, dangling_refs, db>>

HasNoConflict ==
  LET r == has_no_conflict(collection, keyOrder)
  IN  /\ called' = "has_no_conflict"
      /\ raised' = r.raised
      /\ ret' = [NoRet EXCEPT !.bool = r.bool]
      /\ UNCHANGED <<collection, keyOrder, dangling_refs, db>>

Query ==
  \/ \E i \in Ids : GetItem(i)
  \/ \E i \in Ids : GetEvent(i)
  \/ List
  \/ IsSelfContained
  \/ Conflicts
  \/ HasNoConflict

\* one marker at a time
Next ==
  \/ \E m \in Markers : AddItem(<<m>>)
  \/ \E i \in Ids, m \in Markers : UpdateItem(i, m)
  \/ Query

Spec == Init /\ [][Next]_vars

\* add_item(*item) with up to MaxBatch markers
Batches == UNION {[1..n -> Markers] : n \in 1..MaxBatch}

NextBatch ==
  \/ \E item \in Batches : AddItem(item)
  \/ \E i \in Ids : GetItem(i)
  \/ List
  \/ IsSelfContained

SpecBatch == Init /\ [][NextBatch]_vars

\* the graph queries on a seeded Collection
NextSeeded ==
  \/ Conflicts
  \/ HasNoConflict

SpecSeeded == InitSeeded /\ [][NextSeeded]_vars

\* InfoRecDB.write of the InfoRecDB holding the Collection
Write(foreign) ==
  LET r == write(db, collection, keyOrder, foreign)
  IN  /\ called' = "write"
      /\ raised' = r.raised
      /\ ret' = NoRet
      /\ db' = r.db
      /\ UNCHANGED <<collection, keyOrder, dangling_refs>>

\* InfoRecDB.open: the InfoRecDB holds the Collection read_db returned
Open ==
  LET r == read_db(db)
  IN  /\ called' = "read_db"
      /\ raised' = r.raised
      /\ ret' = NoRet
      /\ IF r.raised = "None"
           THEN /\ collection' = r.collection
                /\ keyOrder' = r.keyOrder
                /\ dangling_refs' = r.dangling_refs
           ELSE UNCHANGED <<collection, keyOrder, dangling_refs>>
      /\ UNCHANGED db

\* saving and loading a seeded Collection
NextSnapshot ==
  \/ \E foreign \in ForeignOutcomes : Write(foreign)
  \/ Open

SpecSnapshot == InitSeeded /\ [][NextSnapshot]_vars

\* the seeds of value-comparable markers with the identities ids, in order
RECURSIVE ImplicitSeeds(_)
ImplicitSeeds(ids) ==
  IF ids = <<>> THEN {<<>>}
  ELSE {<<m>> \o rest : m \in ImplicitMarkers(Head(ids)),
                        rest \in ImplicitSeeds(Tail(ids))}

\* Collection(seed) of value-comparable markers
InitImplicit ==
  \E S \in SUBSET SeedIds : \E seed \in ImplicitSeeds(iter(S)) : InitWith(seed)

\* the graph queries on a Collection of value-comparable markers
SpecImplicit == InitImplicit /\ [][NextSeeded]_vars

\* ------------------------------------------------------------------ claims
\* the identities the stored Events refer to
Referenced ==
  UNION {chain(collection[k]) :
           k \in {j \in DOMAIN collection : isinstance(collection[j], "Event")}}

\* C1: after single-marker add_item and update_item calls, x is a key of
\* dangling_refs if and only if a stored Event names x in befores, sames or
\* afters and x is no key of collection; so is_self_contained() is true
\* exactly when every identity a stored Event names is a key of collection.
C1_DanglingIffReferencedAbsent ==
  /\ \A x \in Ids :
       x \in DOMAIN dangling_refs <=> (x \in Referenced /\ x \notin DOMAIN collection)
  /\ is_self_contained(dangling_refs) <=> Referenced \subseteq DOMAIN collection

\* C1, one direction, which the code keeps: an identity that a stored Event
\* names and that is no key of collection is a key of dangling_refs.
C1_ReferencedAbsentIsKey ==
  \A x \in Ids :
    (x \in Referenced /\ x \notin DOMAIN collection) => x \in DOMAIN dangling_refs

\* a Date was added under an identity that stays a key of dangling_refs
C1_Witness ==
  /\ called = "add_item"
  /\ raised = "None"
  /\ \E x \in DOMAIN dangling_refs :
       x \in DOMAIN collection /\ ~isinstance(collection[x], "Event")

\* C3: a successful add_item of a marker with identity x, of any class,
\* removes the key x from dangling_refs; if x was the only key and the marker
\* names no absent identity itself, is_self_contained() is true afterwards.
C3_AddResolvesDangling ==
  [][(called' = "add_item" /\ raised' = "None") =>
       \A x \in DOMAIN collection' \ DOMAIN collection :
         x \in DOMAIN dangling_refs =>
           /\ x \notin DOMAIN dangling_refs'
           /\ (DOMAIN dangling_refs = {x}
                 /\ chain(collection'[x]) \subseteq DOMAIN collection')
                => is_self_contained(dangling_refs')]_vars

\* C3 for an Event: its own key is removed from dangling_refs
C3_EventAddResolvesDangling ==
  [][(called' = "add_item" /\ raised' = "None") =>
       \A x \in DOMAIN collection' \ DOMAIN collection :
         (x \in DOMAIN dangling_refs /\ isinstance(collection'[x], "Event")) =>
           x \notin DOMAIN dangling_refs']_vars

\* C4: has_no_conflict() never raises, whatever add_item and update_item
\* stored, dangling references included.
C4_HasNoConflictNeverRaises ==
  called = "has_no_conflict" => raised = "None"

\* has_no_conflict() raised on a Collection that is not self-contained
C4_Witness ==
  /\ called = "has_no_conflict"
  /\ raised = "KeyError"
  /\ ~is_self_contained(dangling_refs)

\* the keys of the stored Events
EventKeys == {k \in DOMAIN collection : isinstance(collection[k], "Event")}

\* x and y are linked by a sames assertion of a stored Event, either way
SameLinked(x, y) ==
  \E k \in EventKeys :
    \/ collection[k].id = x /\ y \in collection[k].sames
    \/ collection[k].id = y /\ x \in collection[k].sames

\* the identities linked to those of S by chains of sames assertions
RECURSIVE SameClosure(_)
SameClosure(S) ==
  LET T == S \cup {y \in SeedIds : \E x \in S : SameLinked(x, y)}
  IN  IF T = S THEN S ELSE SameClosure(T)

\* the same-group of x
Group(x) == SameClosure({x})

\* the befores / afters assertions between same-groups, earlier to later
GroupEdges ==
  {<<Group(collection[k].id), Group(b)>> : <<k, b>> \in
     {p \in EventKeys \X SeedIds : p[2] \in collection[p[1]].befores}}
  \cup
  {<<Group(a), Group(collection[k].id)>> : <<k, a>> \in
     {p \in EventKeys \X SeedIds : p[2] \in collection[p[1]].afters}}

\* the groups asserted later than one of S, directly or through others
RECURSIVE LaterThan(_)
LaterThan(S) ==
  LET T == S \cup {e[2] : e \in {f \in GroupEdges : f[1] \in S}}
  IN  IF T = S THEN S ELSE LaterThan(T)

\* some same-group is asserted later than itself
Contradictory ==
  \E e \in GroupEdges : e[1] \in LaterThan({e[2]})

\* C2: when the befores / afters assertions between same-groups of stored
\* events contain a directed cycle, conflicts() returns a non-empty list and
\* has_no_conflict() returns False.
C2_ContradictionIsReported ==
  (Contradictory /\ EventKeys = DOMAIN collection /\ raised = "None") =>
    /\ called = "conflicts" => ret.cycles # {}
    /\ called = "has_no_conflict" => ret.bool = FALSE

\* X sames={Y}, X befores={Z}, Z befores={Y}: conflicts() returned no cycle
C2_Witness ==
  /\ called = "conflicts"
  /\ raised = "None"
  /\ ret.cycles = {}
  /\ DOMAIN collection = {1, 2, 3}
  /\ collection[1] = Event(1, {3}, {2}, {})
  /\ collection[3] = Event(3, {2}, {}, {})

\* a stored Event names in befores or afters an identity that is no key
DanglingOrderRefs ==
  UNION {collection[k].befores \cup collection[k].afters : k \in EventKeys}
    \ DOMAIN collection

\* the references of all the stored Events
TotalRefs == LET RECURSIVE Sum(_)
                 Sum(S) == IF S = {} THEN 0
                           ELSE LET k == CHOOSE j \in S : TRUE
                                IN  NumRefs(collection[k]) + Sum(S \ {k})
             IN  Sum(EventKeys)

\* C5: with a stored Event that names an absent identity in befores or
\* afters, conflicts() returns, the graph has a node for the absent identity,
\* and with no other relation the list of cycles is empty.
C5_ForwardReferenceIsPlaceholder ==
  (called = "conflicts" /\ DanglingOrderRefs # {}) =>
    /\ raised = "None"
    /\ \A x \in DanglingOrderRefs :
         str(x) \in nodes(OrderedMarkers(values(collection, keyOrder)).g)
    /\ TotalRefs = 1 => ret.cycles = {}

\* conflicts() raised on a lone Event that names an absent identity
C5_Witness ==
  /\ called = "conflicts"
  /\ raised = "KeyError"
  /\ DOMAIN collection = {1}
  /\ collection[1] = Event(1, {2}, {}, {})

\* exactly the events a, b, each before the other, no sames, no afters
MutualBefores(a, b) ==
  /\ a # b
  /\ DOMAIN collection = {a, b}
  /\ collection[a] = Event(a, {b}, {}, {})
  /\ collection[b] = Event(b, {a}, {}, {})

\* C10: with exactly two events A befores={B} and B befores={A},
\* conflicts() returns exactly one simple cycle, through the nodes of both.
C10_MinimalCycle ==
  \A a, b \in SeedIds :
    (called = "conflicts" /\ MutualBefores(a, b)) =>
      /\ raised = "None"
      /\ Cardinality(ret.cycles) = 1
      /\ \A c \in ret.cycles : {c[k] : k \in DOMAIN c} = {str(a), str(b)}

\* conflicts() returned on A befores={B}, B befores={A}
C10_Witness ==
  /\ called = "conflicts"
  /\ raised = "None"
  /\ MutualBefores(1, 3)
  /\ ret.cycles = {<<str(1), str(3)>>}

\* the identities of the markers of a batch
BatchIds(item) == {item[k].id : k \in DOMAIN item}

\* C6: add_item of markers with pairwise distinct identities, none a key of
\* collection, succeeds and list() grows by the number of markers added;
\* add_item of a marker whose identity is a key raises IllegalStateError and
\* leaves list() and the marker stored under that identity as they were.
C6_IdentityUniqueness ==
  \A item \in Batches :
    LET r == add_item(collection, keyOrder, dangling_refs, item)
    IN  /\ (/\ Cardinality(BatchIds(item)) = Len(item)
            /\ BatchIds(item) \cap DOMAIN collection = {})
             => /\ r.raised = "None"
                /\ Len(list(r.keyOrder)) = Len(list(keyOrder)) + Len(item)
                /\ \A k \in DOMAIN item : r.collection[item[k].id] = item[k]
        /\ (Len(item) = 1 /\ item[1].id \in DOMAIN collection)
             => /\ r.raised = "IllegalStateError"
                /\ list(r.keyOrder) = list(keyOrder)
                /\ r.collection[item[1].id] = collection[item[1].id]

\* add_item raised on an identity stored by an earlier add_item
C6_Witness ==
  /\ called = "add_item"
  /\ raised = "IllegalStateError"
  /\ Len(keyOrder) = MaxId
  /\ \A k \in DOMAIN collection : k \notin DOMAIN dangling_refs

\* C7: update_item with a new_item of another class than the stored marker
\* raises AssertionError and leaves collection and dangling_refs as they were.
C7_VariantMismatch ==
  \A i \in DOMAIN collection, m \in Markers :
    ~isinstance(m, collection[i].variant) =>
      LET r == update_item(collection, keyOrder, dangling_refs, i, m)
      IN  /\ r.raised = "AssertionError"
          /\ r.collection = collection
          /\ r.keyOrder = keyOrder
          /\ r.dangling_refs = dangling_refs

\* update_item raised AssertionError on a Collection with dangling references
C7_Witness ==
  /\ called = "update_item"
  /\ raised = "AssertionError"
  /\ ~is_self_contained(dangling_refs)

\* k is the first item of the batch whose identity is a key of collection
\* or the identity of an earlier item
FirstDuplicate(item, k) ==
  LET dup(j) == \/ item[j].id \in DOMAIN collection
                \/ \E i \in 1..(j - 1) : item[i].id = item[j].id
  IN  dup(k) /\ \A j \in 1..(k - 1) : ~dup(j)

\* C8: when the k-th item of a batch is its first duplicate, add_item raises
\* IllegalStateError, items 1..k-1 are stored, the marker stored under the
\* k-th identity is not overwritten, and no later item is stored.
C8_PartialBatch ==
  \A item \in Batches : \A k \in DOMAIN item :
    FirstDuplicate(item, k) =>
      LET r == add_item(collection, keyOrder, dangling_refs, item)
      IN  /\ r.raised = "IllegalStateError"
          /\ DOMAIN r.collection = DOMAIN collection \cup {item[j].id : j \in 1..(k - 1)}
          /\ \A j \in 1..(k - 1) : r.collection[item[j].id] = item[j]
          /\ \A x \in DOMAIN collection : r.collection[x] = collection[x]

\* add_item raised after it stored an Event of the batch: the Event names an
\* absent identity that is no key of dangling_refs
C8_Witness ==
  /\ called = "add_item"
  /\ raised = "IllegalStateError"
  /\ \E k \in EventKeys :
       \E x \in chain(collection[k]) :
         x \notin DOMAIN collection /\ x \notin DOMAIN dangling_refs

\* C9: get_item, get_event and update_item with an identity that is no key
\* of collection raise KeyError, and update_item leaves collection and
\* dangling_refs as they were.
C9_NotFound ==
  \A i \in Ids \ DOMAIN collection :
    /\ get_item(collection, i).raised = "KeyError"
    /\ get_event(collection, i).raised = "KeyError"
    /\ \A m \in Markers :
         LET r == update_item(collection, keyOrder, dangling_refs, i, m)
         IN  /\ r.raised = "KeyError"
             /\ r.collection = collection
             /\ r.keyOrder = keyOrder
             /\ r.dangling_refs = dangling_refs

\* update_item raised KeyError on a Collection that names the absent identity
C9_Witness ==
  /\ called = "update_item"
  /\ raised = "KeyError"
  /\ collection # EmptyMap
  /\ DOMAIN dangling_refs # {}

\* every stored marker is an Event without sames, and every identity an
\* Event names is stored
EventsWithoutSames ==
  /\ EventKeys = DOMAIN collection
  /\ \A k \in EventKeys : collection[k].sames = {}
  /\ Referenced \subseteq DOMAIN collection

\* C11: on a self-contained Collection of events without sames whose befores
\* and afters assertions are acyclic, conflicts() is empty and
\* has_no_conflict() is True; and has_no_conflict() returns True exactly
\* when conflicts() returns an empty list.
C11_AcyclicHasNoConflict ==
  /\ (EventsWithoutSames /\ ~Contradictory) =>
       /\ called = "conflicts" => (raised = "None" /\ ret.cycles = {})
       /\ called = "has_no_conflict" => (raised = "None" /\ ret.bool = TRUE)
  /\ (called = "has_no_conflict" /\ raised = "None") =>
       LET c == conflicts(collection, keyOrder)
       IN  c.raised = "None" /\ (ret.bool = TRUE <=> c.cycles = {})

\* has_no_conflict() returned True on the chain 1 before 2 before 3
C11_Witness ==
  /\ called = "has_no_conflict"
  /\ raised = "None"
  /\ ret.bool = TRUE
  /\ DOMAIN collection = {1, 2, 3}
  /\ collection[1] = Event(1, {2}, {}, {})
  /\ collection[2] = Event(2, {3}, {}, {})
  /\ collection[3] = Event(3, {}, {}, {})

\* C12: conflicts() and has_no_conflict() leave collection (keys and stored
\* markers) and dangling_refs as they were, whether they return or raise.
C12_QueriesDoNotMutate ==
  [][called' \in {"conflicts", "has_no_conflict"} =>
       /\ collection' = collection
       /\ keyOrder' = keyOrder
       /\ dangling_refs' = dangling_refs]_vars

\* conflicts() raised on a Collection with a dangling reference
C12_Witness ==
  /\ called = "conflicts"
  /\ raised = "KeyError"
  /\ collection # EmptyMap
  /\ DOMAIN dangling_refs # {}

\* C14: after the merge over a self-contained Collection, two stored
\* identities have the same group representative exactly when a chain of
\* sames assertions, taken in either direction, connects them.
C14_SameMergeIsEquivalence ==
  (called = "conflicts" /\ is_self_contained(dangling_refs)) =>
    LET merged == merge(values(collection, keyOrder))
    IN  /\ merged.raised = "None"
        /\ \A x, y \in DOMAIN collection :
             merged.id_merged[x] = merged.id_merged[y] <=> y \in Group(x)

\* conflicts() was called on 1 sames {2}, 2 sames {3}, 3
C14_Witness ==
  /\ called = "conflicts"
  /\ DOMAIN collection = {1, 2, 3}
  /\ collection[1] = Event(1, {}, {2}, {})
  /\ collection[2] = Event(2, {}, {3}, {})
  /\ collection[3] = Event(3, {}, {}, {})

\* C15: when value-comparable d1 is BEFORE d2 and a stored Event names d2 in
\* its afters and d1 in its befores, conflicts() returns a cycle.
C15_ImplicitExplicitCycle ==
  (called = "conflicts" /\ is_self_contained(dangling_refs)) =>
    \A d1, d2 \in DOMAIN collection : \A e \in EventKeys :
      ( /\ is_implicit(collection[d1])
        /\ is_implicit(collection[d2])
        /\ compare(collection[d1], collection[d2]) = "BEFORE"
        /\ d2 \in collection[e].afters
        /\ d1 \in collection[e].befores )
      => (raised = "None" /\ ret.cycles # {})

\* conflicts() was called on Dates 1 BEFORE 2 and an Event after 2, before 1
C15_Witness ==
  /\ called = "conflicts"
  /\ DOMAIN collection = {1, 2, 3}
  /\ collection[1] = Date(1, 1)
  /\ collection[2] = Date(2, 2)
  /\ collection[3] = Event(3, {1}, {}, {2})

\* the referrers recorded for x, none when x is no key
Referrers(refs, x) == IF x \in DOMAIN refs THEN refs[x] ELSE {}

\* C16: update_item(i, m) that returns stores m under i and changes no other
\* stored marker; afterwards i is a referrer of x exactly when m is an Event
\* naming an x that is not stored, and every other referrer is as before.
C16_UpdateReplaces ==
  \A i \in DOMAIN collection : \A m \in Markers :
    LET r == update_item(collection, keyOrder, dangling_refs, i, m)
    IN  r.raised = "None" =>
          /\ DOMAIN r.collection = DOMAIN collection
          /\ r.collection[i] = m
          /\ \A k \in DOMAIN collection \ {i} : r.collection[k] = collection[k]
          /\ \A x \in Ids :
               /\ i \in Referrers(r.dangling_refs, x) <=>
                    ( /\ isinstance(m, "Event")
                      /\ x \in chain(m)
                      /\ x \notin DOMAIN collection )
               /\ \A j \in Ids \ {i} :
                    j \in Referrers(r.dangling_refs, x) <=>
                      j \in Referrers(dangling_refs, x)

\* update_item returned and left a reference of the new Event dangling
C16_Witness ==
  /\ called = "update_item"
  /\ raised = "None"
  /\ \E k \in EventKeys :
       \E x \in chain(collection[k]) :
         x \notin DOMAIN collection /\ k \in Referrers(dangling_refs, x)

\* C18: every stored marker carries as its id the key it is stored under.
C18_StoredUnderOwnIdentity ==
  \A k \in DOMAIN collection : collection[k].id = k

\* update_item returned on a non-empty Collection
C18_Witness ==
  /\ called = "update_item"
  /\ raised = "None"
  /\ \E k \in DOMAIN collection : isinstance(collection[k], "Date")

\* C19: add_item that raises IllegalStateError leaves dangling_refs as it was.
C19_FailedAddKeepsDanglingRefs ==
  [][(called' = "add_item" /\ raised' = "IllegalStateError") =>
       dangling_refs' = dangling_refs]_vars

\* add_item raised after it stored an Event whose identity is a dangling key
C19_Witness ==
  /\ called = "add_item"
  /\ raised = "IllegalStateError"
  /\ EventKeys \cap DOMAIN dangling_refs # {}

\* a marker that can be ordered by value: an AbsoluteDateTime, a Date or an
\* Event carrying an implicit timespec
ValueComparable(marker) ==
  is_implicit(marker) \/ (isinstance(marker, "Event") /\ marker.value \in Values)

\* the graph has an edge from the node of identity a to the node of identity b
HasEdge(g, a, b) == \E e \in g : e[1].id = a /\ e[2].id = b

\* C17: for every two stored value-comparable markers the graph has the edge
\* from the earlier to the later one and not the reverse, no edge when they
\* compare SAME, and each stays its own group representative.
C17_ImplicitEdges ==
  called = "conflicts" =>
    LET coll == values(collection, keyOrder)
        om == OrderedMarkers(coll)
        merged == merge(coll)
    IN  /\ om.raised = "None"
        /\ merged.raised = "None"
        /\ \A k, j \in DOMAIN collection :
             ( /\ k # j
               /\ ValueComparable(collection[k])
               /\ ValueComparable(collection[j]) )
             => /\ compare(collection[k], collection[j]) = "BEFORE" =>
                     HasEdge(om.g, k, j) /\ ~HasEdge(om.g, j, k)
                /\ compare(collection[k], collection[j]) = "SAME" =>
                     ~HasEdge(om.g, k, j) /\ ~HasEdge(om.g, j, k)
                /\ merged.id_merged[k] = k

\* conflicts() was called on a Date and a later Event with an implicit timespec
C17_Witness ==
  /\ called = "conflicts"
  /\ DOMAIN collection = {1, 2}
  /\ collection[1] = Date(1, 1)
  /\ collection[2] = EventImplicit(2, 2)

\* the Collection stores a marker of each of the three classes
AllVariants ==
  \A cls \in {"AbsoluteDateTime", "Date", "Event"} :
    \E k \in DOMAIN collection : isinstance(collection[k], cls)

\* C13: on a Collection with markers of all three classes write() returns,
\* and read_db() of what it wrote returns a Collection with the same keys
\* storing equal markers.
C13_RoundTrip ==
  [][ /\ (AllVariants /\ called' = "write") => raised' = "None"
      /\ (AllVariants /\ called = "write" /\ raised = "None"
            /\ called' = "read_db")
           => /\ raised' = "None"
              /\ DOMAIN collection' = DOMAIN collection
              /\ \A k \in DOMAIN collection : collection'[k] = collection[k] ]_vars

\* read_db() ran on the file written from a Collection of all three classes
C13_Witness ==
  /\ AllVariants
  /\ called = "read_db"
  /\ db.exists
  /\ Len(db.coll) = Cardinality(DOMAIN collection)
====
